---- MODULE Spec2Model ----
(***************************************************************************)
(* A model of snakemake/workflow.py: the Workflow controller.              *)
(*                                                                         *)
(* Four specifications share the module's variables, one per part of the   *)
(* controller:                                                             *)
(*   SpecRegistry  add_rule / include / run_first_rule's choice of target  *)
(*   SpecWorkdir   workdir                                                 *)
(*   SpecResolve   rule registration with outputs, get_file_producers      *)
(*   SpecRun       _run with the job scheduler, set_job_finished           *)
(* Rule, Job and the schedulers live in snakemake.rules and snakemake.jobs,*)
(* which workflow.py only imports; what the model needs of them is taken   *)
(* from the design document and marked so where it is defined.             *)
(***************************************************************************)
EXTENDS Integers, Sequences, FiniteSets, TLC

VARIABLES
    rules,      \* Workflow.__rules: OrderedDict, a sequence of [name, obj, output, trial]
    first,      \* Workflow.__first: a rule name or None
    nobjs,      \* number of Rule objects constructed so far (object identity)
    overwrote,  \* history: some include elected overwrite_first_rule
    lastOp,     \* history: the last call, its arguments and its outcome
    workdir_,   \* Workflow._workdir
    cwd,        \* the process's current directory
    dirs,       \* the directories that exist on the filesystem
    dirs0,      \* history: the directories that existed at construction
    wdCalls,    \* history: the paths of the workdir calls so far
    disk,       \* the files that exist on disk
    errors,     \* Workflow.errors
    pc,         \* position of _run: "idle", "scheduling", "returned"
    upstream,   \* the resolved job set: job -> set of upstream jobs
    threads,    \* job -> declared threads
    cores,      \* Workflow._cores
    jstate,     \* job -> "pending" | "running" | "done" | "failed"
    sched_errors, \* the scheduler's own record that a job failed (fail-fast)
    runReported,  \* history: set_job_finished(error=True) was called in this run
    prevFailed,   \* history: an earlier run on this workflow returned 1
    cleaned,      \* history: Job.cleanup_unfinished was invoked by this run
    retval        \* what _run returned

regVars == <<rules, first, nobjs, overwrote>>
wdVars  == <<workdir_, cwd, dirs, dirs0, wdCalls>>
runVars == <<errors, pc, upstream, threads, cores, jstate, sched_errors,
             runReported, prevFailed, cleaned, retval>>
vars == <<rules, first, nobjs, overwrote, lastOp, workdir_, cwd, dirs, dirs0,
          wdCalls, disk, errors, pc, upstream, threads, cores, jstate,
          sched_errors, runReported, prevFailed, cleaned, retval>>

(***************************************************************************)
(* Python values                                                           *)
(***************************************************************************)
None == "<None>"
NoExc == "ok"

\* Python truthiness of a str-or-None value, as in `if not self.__first`.
Falsy(x) == x = None \/ x = ""

Digits == <<"0", "1", "2", "3", "4", "5", "6", "7", "8", "9">>

\* str(n) for a natural number n.
RECURSIVE Str(_)
Str(n) == IF n < 10 THEN Digits[n + 1] ELSE Str(n \div 10) \o Digits[(n % 10) + 1]

(***************************************************************************)
(* Bounds                                                                  *)
(***************************************************************************)
MaxRules == 3        \* registrations are attempted while fewer rules exist
MaxIncludeLen == 2   \* rule declarations in one included file
MaxCalls == 3        \* workdir calls on one workflow
MaxTargets == 2      \* file targets in one get_file_producers call
MaxJobs == 3         \* jobs in one resolved job set

\* Rule names a caller passes; None asks add_rule for an automatic name.
Names == {"a", "b", "c"}
NameArgs == Names \cup {None}
\* Directories a caller passes to workdir (non-empty paths).
Paths == {"d1", "d2", "d3"}
StartDir == "."
\* Files of the resolver's world.
Files == {"f", "g"}
\* Outcomes of a trial expansion rule.run(file, dryrun = True).
Trials == {"ok", "MissingInput", "CyclicGraph"}

RECURSIVE SeqsUpTo(_, _)
SeqsUpTo(S, n) ==
    IF n = 0 THEN {<<>>}
    ELSE LET shorter == SeqsUpTo(S, n - 1)
         IN shorter \cup {Append(s, x) : s \in shorter, x \in S}

(***************************************************************************)
(* The rule registry: OrderedDict operations                               *)
(***************************************************************************)
DictKeys(d) == {d[i].name : i \in 1..Len(d)}

\* d[key] = entry on an OrderedDict: an existing key keeps its position.
DictSet(d, entry) ==
    IF entry.name \in DictKeys(d)
    THEN [i \in 1..Len(d) |-> IF d[i].name = entry.name THEN entry ELSE d[i]]
    ELSE Append(d, entry)

DictGet(d, key) == d[CHOOSE i \in 1..Len(d) : d[i].name = key]

is_rule(w, name) == name \in DictKeys(w.rules)

\* Rule(name, self, ...): a fresh object with no output set yet.
NewRule(name, id) == [name |-> name, obj |-> id, output |-> {}, trial |-> "ok"]

\* add_rule without the duplicate check: the entry of a used name is replaced.
add_rule_nocheck(w, name) ==
    LET n == IF name = None THEN Str(Len(w.rules)) ELSE name
    IN [w |-> [rules |-> DictSet(w.rules, NewRule(n, w.nobjs + 1)),
               first |-> IF Falsy(w.first) THEN n ELSE w.first,
               nobjs |-> w.nobjs + 1],
        exc |-> NoExc, name |-> n]

\* Workflow.add_rule on the workflow value w: the workflow afterwards, the
\* exception raised (NoExc when it returns) and the name it resolved.
add_rule(w, name) ==
    LET n == IF name = None THEN Str(Len(w.rules)) ELSE name
    IN IF is_rule(w, n)
       THEN [w |-> w, exc |-> "CreateRule", name |-> n]
       ELSE [w |-> [rules |-> DictSet(w.rules, NewRule(n, w.nobjs + 1)),
                    first |-> IF Falsy(w.first) THEN n ELSE w.first,
                    nobjs |-> w.nobjs + 1],
             exc |-> NoExc, name |-> n]

\* exec(compile(code, ...)): the included file's rule declarations, in
\* declaration order; an exception ends the execution where it is raised.
RECURSIVE exec_code(_, _, _)
exec_code(w, decls, registered) ==
    IF decls = <<>>
    THEN [w |-> w, exc |-> NoExc, registered |-> registered]
    ELSE LET r == add_rule(w, Head(decls))
         IN IF r.exc # NoExc
            THEN [w |-> r.w, exc |-> r.exc, registered |-> registered]
            ELSE exec_code(r.w, Tail(decls), Append(registered, r.name))

\* Workflow.include: the first-rule pointer is put back after the exec
\* unless overwrite_first_rule; an exception in the exec skips that.
include(w, decls, overwrite_first_rule) ==
    LET first_rule == w.first
        r == exec_code(w, decls, <<>>)
    IN IF r.exc # NoExc THEN r
       ELSE [r EXCEPT !.w.first = IF ~overwrite_first_rule THEN first_rule
                                   ELSE r.w.first]

\* run_first_rule's choice of target: __first, or the registry's first key.
\* get_rule raises NoRules on an empty registry, UnknownRule on a name it
\* does not hold.
run_first_rule(w) ==
    LET f == IF ~Falsy(w.first) THEN w.first
             ELSE IF Len(w.rules) > 0 THEN w.rules[1].name ELSE None
    IN IF Len(w.rules) = 0 THEN [target |-> None, exc |-> "NoRules"]
       ELSE IF f \notin DictKeys(w.rules) THEN [target |-> None, exc |-> "UnknownRule"]
       ELSE [target |-> f, exc |-> NoExc]

Workflow == [rules |-> rules, first |-> first, nobjs |-> nobjs]

(***************************************************************************)
(* Initial values: the state after Workflow.__init__                       *)
(***************************************************************************)
\* A call's outcome: the exception raised (NoExc when it returns), the value
\* returned, the errors a composite RuleException includes, and the rules and
\* file an AmbiguousRuleException names.
NoRes == [exc |-> NoExc, value |-> <<>>, included |-> <<>>, ambiguous |-> <<>>]

NoOp == [op |-> "none", arg |-> None, name |-> None, decls |-> <<>>,
         overwrite |-> FALSE, registered |-> <<>>, exc |-> NoExc,
         files |-> <<>>, res |-> NoRes]

InitReg == rules = <<>> /\ first = None /\ nobjs = 0 /\ overwrote = FALSE

InitWd == workdir_ = None /\ cwd = StartDir /\ dirs = {} /\ dirs0 = {}
          /\ wdCalls = <<>>

InitRun == /\ errors = FALSE /\ pc = "idle" /\ upstream = <<>> /\ threads = <<>>
           /\ cores = 1 /\ jstate = <<>> /\ sched_errors = FALSE
           /\ runReported = FALSE /\ prevFailed = FALSE /\ cleaned = FALSE
           /\ retval = None

(***************************************************************************)
(* SpecRegistry: add_rule and include                                      *)
(***************************************************************************)
CallAddRule(name) ==
    /\ Len(rules) < MaxRules
    /\ LET r == add_rule(Workflow, name)
       IN /\ rules' = r.w.rules
          /\ first' = r.w.first
          /\ nobjs' = r.w.nobjs
          /\ lastOp' = [NoOp EXCEPT !.op = "add_rule", !.arg = name,
                                    !.name = r.name, !.exc = r.exc]
    /\ UNCHANGED <<overwrote, wdVars, disk, runVars>>

CallInclude(decls, overwrite_first_rule) ==
    /\ Len(rules) + Len(decls) <= MaxRules
    /\ LET r == include(Workflow, decls, overwrite_first_rule)
       IN /\ rules' = r.w.rules
          /\ first' = r.w.first
          /\ nobjs' = r.w.nobjs
          /\ lastOp' = [NoOp EXCEPT !.op = "include", !.decls = decls,
                                    !.overwrite = overwrite_first_rule,
                                    !.registered = r.registered, !.exc = r.exc]
    /\ overwrote' = (overwrote \/ overwrite_first_rule)
    /\ UNCHANGED <<wdVars, disk, runVars>>

InitRegistry == InitReg /\ InitWd /\ InitRun /\ disk = {} /\ lastOp = NoOp

NextRegistry ==
    \/ \E name \in NameArgs : CallAddRule(name)
    \/ \E decls \in SeqsUpTo(NameArgs, MaxIncludeLen), ow \in BOOLEAN :
          CallInclude(decls, ow)

SpecRegistry == InitRegistry /\ [][NextRegistry]_vars

\* C2: after add_rule calls and includes that do not elect
\* overwrite_first_rule, on a workflow with at least one rule, run_first_rule
\* targets the first entry of the registry (the rule registered earliest).
C2_FirstRuleIsEarliest ==
    (Len(rules) > 0 /\ ~overwrote) =>
        /\ run_first_rule(Workflow).exc = NoExc
        /\ run_first_rule(Workflow).target = rules[1].name

\* C3: after an include that elected overwrite_first_rule and registered at
\* least one rule, run_first_rule targets the first rule that inclusion
\* registered, whether or not a default rule was set before.
C3_OverwriteTakesIncluded ==
    (lastOp.op = "include" /\ lastOp.overwrite /\ lastOp.registered # <<>>) =>
        run_first_rule(Workflow).target = lastOp.registered[1]

\* C4: add_rule with a name that is already registered fails with CreateRule
\* and changes neither the registry (same rules, same order, same rule
\* objects) nor the first-rule pointer; a CreateRule is raised for no other
\* reason; and the names of the registry stay pairwise distinct.
C4_DuplicateRejected ==
    /\ [](\A i, j \in 1..Len(rules) : rules[i].name = rules[j].name => i = j)
    /\ [][lastOp'.op = "add_rule" =>
            /\ (lastOp'.name \in DictKeys(rules)) <=> (lastOp'.exc = "CreateRule")
            /\ lastOp'.exc = "CreateRule" =>
                 /\ rules' = rules
                 /\ first' = first
                 /\ nobjs' = nobjs]_vars

\* C4's case: a duplicate add_rule was rejected on a workflow holding rules.
C4_Witness ==
    /\ lastOp.op = "add_rule" /\ lastOp.exc = "CreateRule"
    /\ Len(rules) >= 2 /\ first = rules[1].name

(***************************************************************************)
(* SpecWorkdir: workdir                                                    *)
(***************************************************************************)
Process == [workdir |-> workdir_, cwd |-> cwd, dirs |-> dirs]

\* workdir without the `if not self._workdir` guard: every call takes effect.
workdir_unguarded(p, path) ==
    [workdir |-> path, cwd |-> path, dirs |-> p.dirs \cup {path}]

\* Workflow.workdir on the process value p: os.makedirs when the path does
\* not exist, os.chdir, and the path recorded; nothing once a path is recorded.
workdir(p, path) ==
    IF Falsy(p.workdir)
    THEN [workdir |-> path,
          cwd |-> path,
          dirs |-> IF path \notin p.dirs THEN p.dirs \cup {path} ELSE p.dirs]
    ELSE p

CallWorkdir(path) ==
    /\ Len(wdCalls) < MaxCalls
    /\ LET p == workdir(Process, path)
       IN /\ workdir_' = p.workdir
          /\ cwd' = p.cwd
          /\ dirs' = p.dirs
    /\ wdCalls' = Append(wdCalls, path)
    /\ lastOp' = [NoOp EXCEPT !.op = "workdir", !.arg = path]
    /\ UNCHANGED <<dirs0, regVars, disk, runVars>>

InitWorkdir ==
    /\ InitReg /\ InitRun /\ disk = {} /\ lastOp = NoOp
    /\ workdir_ = None /\ cwd = StartDir /\ wdCalls = <<>>
    /\ dirs \in SUBSET Paths
    /\ dirs0 = dirs

NextWorkdir == \E path \in Paths : CallWorkdir(path)

SpecWorkdir == InitWorkdir /\ [][NextWorkdir]_vars

rule(w, name, output, trial) ==
    LET r == add_rule(w, name)
    IN IF r.exc # NoExc THEN r
       ELSE [r EXCEPT !.w.rules =
                DictSet(r.w.rules, [DictGet(r.w.rules, r.name) EXCEPT
                                        !.output = output, !.trial = trial])]

\* Rule.is_producer(file) for output patterns without wildcards.
is_producer(r, file) == file \in r.output

\* Workflow.get_producers(files): the (rule, file) pairs it yields, rules in
\* registry order and, per rule, the files in the order given.
RECURSIVE producers_of_rule(_, _)
producers_of_rule(r, files) ==
    IF files = <<>> THEN <<>>
    ELSE (IF is_producer(r, Head(files))
          THEN <<[rule |-> r.name, file |-> Head(files)]>> ELSE <<>>)
         \o producers_of_rule(r, Tail(files))

RECURSIVE get_producers_from(_, _, _)
get_producers_from(rs, files, exclude) ==
    IF rs = <<>> THEN <<>>
    ELSE (IF Head(rs).name # exclude THEN producers_of_rule(Head(rs), files)
          ELSE <<>>)
         \o get_producers_from(Tail(rs), files, exclude)

get_producers(w, files, exclude) == get_producers_from(w.rules, files, exclude)

\* The files a producers dict (a sequence of [rule, file]) has as keys.
ProducerKeys(producers) == {producers[i].file : i \in 1..Len(producers)}

ProducerOf(producers, file) ==
    producers[CHOOSE i \in 1..Len(producers) : producers[i].file = file].rule

\* The first loop of get_file_producers over what get_producers yields:
\* producers and missing_input_ex as they grow, ended by the first exception
\* that is not a MissingInputException.
RECURSIVE trial_loop(_, _, _, _)
trial_loop(w, pairs, producers, missing_input_ex) ==
    IF pairs = <<>>
    THEN [exc |-> NoExc, producers |-> producers,
          missing_input_ex |-> missing_input_ex, ambiguous |-> <<>>]
    ELSE LET p == Head(pairs)
             t == DictGet(w.rules, p.rule).trial
         IN IF t = "MissingInput"
            THEN trial_loop(w, Tail(pairs), producers,
                            Append(missing_input_ex,
                                   [kind |-> "MissingInput", file |-> p.file,
                                    rule |-> p.rule]))
            ELSE IF t # "ok"
            THEN [exc |-> t, producers |-> producers,
                  missing_input_ex |-> missing_input_ex, ambiguous |-> <<>>]
            ELSE IF p.file \in ProducerKeys(producers)
            THEN [exc |-> "AmbiguousRule", producers |-> producers,
                  missing_input_ex |-> missing_input_ex,
                  ambiguous |-> <<ProducerOf(producers, p.file), p.rule, p.file>>]
            ELSE trial_loop(w, Tail(pairs), Append(producers, p), missing_input_ex)

\* The second loop: what is collected to raise, file by file.
RECURSIVE collect_toraise(_, _, _)
collect_toraise(files, producers, missing_input_ex) ==
    IF files = <<>> THEN <<>>
    ELSE LET file == Head(files)
             mine == SelectSeq(missing_input_ex, LAMBDA e : e.file = file)
         IN (IF file \notin ProducerKeys(producers)
             THEN IF mine # <<>> THEN mine
                  ELSE <<[kind |-> "MissingRule", file |-> file, rule |-> None]>>
             ELSE <<>>)
            \o collect_toraise(Tail(files), producers, missing_input_ex)

\* Workflow.get_file_producers(files).
get_file_producers(w, files) ==
    LET l == trial_loop(w, get_producers(w, files, None), <<>>, <<>>)
        toraise == collect_toraise(files, l.producers, l.missing_input_ex)
    IN IF l.exc # NoExc
       THEN [NoRes EXCEPT !.exc = l.exc, !.ambiguous = l.ambiguous]
       ELSE IF toraise # <<>>
       THEN [NoRes EXCEPT !.exc = "Rule", !.included = toraise]
       ELSE [NoRes EXCEPT !.value = l.producers]

CallRule(name, output, trial) ==
    /\ Len(rules) < MaxRules
    /\ LET r == rule(Workflow, name, output, trial)
       IN /\ rules' = r.w.rules
          /\ first' = r.w.first
          /\ nobjs' = r.w.nobjs
          /\ lastOp' = [NoOp EXCEPT !.op = "rule", !.arg = name,
                                    !.name = r.name, !.exc = r.exc]
    /\ UNCHANGED <<overwrote, wdVars, disk, runVars>>

CallGetFileProducers(files) ==
    /\ lastOp' = [NoOp EXCEPT !.op = "get_file_producers", !.files = files,
                              !.res = get_file_producers(Workflow, files)]
    /\ UNCHANGED <<regVars, wdVars, disk, runVars>>

InitResolve ==
    /\ InitReg /\ InitWd /\ InitRun /\ lastOp = NoOp
    /\ disk \in SUBSET Files

NextResolve ==
    \/ \E name \in Names, output \in (SUBSET Files) \ {{}}, trial \in Trials :
          CallRule(name, output, trial)
    \/ \E files \in SeqsUpTo(Files, MaxTargets) : CallGetFileProducers(files)

SpecResolve == InitResolve /\ [][NextResolve]_vars

(***************************************************************************)
(* Statements about get_file_producers                                     *)
(***************************************************************************)
\* The registered rules (by position) that are producers of a file, and
\* those of them whose trial expansion succeeds.
Producing(file) == {i \in 1..Len(rules) : is_producer(rules[i], file)}
Succeeding(file) == {i \in Producing(file) : rules[i].trial = "ok"}

IsResolveCall == lastOp.op = "get_file_producers"
Requested == {lastOp.files[i] : i \in 1..Len(lastOp.files)}

\* A composite RuleException was raised and includes an error of this kind
\* for this file.
Included(kind, file) ==
    /\ lastOp.res.exc = "Rule"
    /\ \E k \in 1..Len(lastOp.res.included) :
          /\ lastOp.res.included[k].kind = kind
          /\ lastOp.res.included[k].file = file

\* An AmbiguousRuleException about this file was raised.
AmbiguousRaised(file) ==
    /\ lastOp.res.exc = "AmbiguousRule"
    /\ lastOp.res.ambiguous[3] = file

\* C5: get_file_producers returns normally only if every requested file has
\* exactly one rule whose trial expansion succeeds, the result then pairs each
\* requested file with that rule exactly once; and a requested file for which
\* one rule succeeds and the other producers fail with MissingInput draws no
\* error.
C5_UniqueProducerResolved ==
    IsResolveCall =>
        /\ lastOp.res.exc = NoExc =>
              /\ \A k \in 1..Len(lastOp.res.value) :
                    lastOp.res.value[k].file \in Requested
              /\ \A file \in Requested :
                    /\ Cardinality(Succeeding(file)) = 1
                    /\ \E k \in 1..Len(lastOp.res.value) :
                          /\ lastOp.res.value[k].file = file
                          /\ \A i \in Succeeding(file) :
                                lastOp.res.value[k].rule = rules[i].name
                          /\ \A m \in 1..Len(lastOp.res.value) :
                                lastOp.res.value[m].file = file => m = k
        /\ \A file \in Requested :
              ( /\ Cardinality(Succeeding(file)) = 1
                /\ \A i \in Producing(file) \ Succeeding(file) :
                      rules[i].trial = "MissingInput" )
              => /\ ~AmbiguousRaised(file)
                 /\ ~Included("MissingInput", file)
                 /\ ~Included("MissingRule", file)

\* C6: in a call whose trial expansions raise nothing but MissingInput, the
\* failure of every requested file is reported, whatever the other files'
\* failures are: MissingRule for a file without producer, MissingInput for a
\* file whose producers all fail, AmbiguousRule for a file with two succeeding
\* producers.
C6_EveryFailureReported ==
    ( /\ IsResolveCall
      /\ \A file \in Requested : \A i \in Producing(file) :
            rules[i].trial \in {"ok", "MissingInput"} )
    => \A file \in Requested :
          /\ Producing(file) = {} => Included("MissingRule", file)
          /\ (Producing(file) # {} /\ Succeeding(file) = {})
                => Included("MissingInput", file)
          /\ Cardinality(Succeeding(file)) >= 2
                => (AmbiguousRaised(file) \/ Included("AmbiguousRule", file))

\* C9: a MissingRule is reported for a requested file only when no registered
\* rule is a producer of it and it does not exist on disk; in a composite
\* error a requested file whose producers all fail with MissingInput is
\* reported with those MissingInput errors and not with MissingRule.
C9_MissingRuleOnlyIfAbsent ==
    IsResolveCall =>
        /\ \A file \in Requested :
              Included("MissingRule", file)
                 => (Producing(file) = {} /\ file \notin disk)
        /\ lastOp.res.exc = "Rule" =>
              \A file \in Requested :
                 ( /\ Producing(file) # {}
                   /\ \A i \in Producing(file) : rules[i].trial = "MissingInput" )
                 => /\ ~Included("MissingRule", file)
                    /\ \A i \in Producing(file) :
                          \E k \in 1..Len(lastOp.res.included) :
                             lastOp.res.included[k] =
                                [kind |-> "MissingInput", file |-> file,
                                 rule |-> rules[i].name]

\* C10: get_file_producers fails with AmbiguousRule for a file only if two
\* distinct registered rules both pass trial expansion for that file, for
\* every list of file targets.
C10_AmbiguousNeedsTwoRules ==
    (IsResolveCall /\ lastOp.res.exc = "AmbiguousRule") =>
        /\ lastOp.res.ambiguous[1] # lastOp.res.ambiguous[2]
        /\ Cardinality(Succeeding(lastOp.res.ambiguous[3])) >= 2

(***************************************************************************)
(* SpecRun: _run, the scheduler and set_job_finished                       *)
(***************************************************************************)
\* Declared threads of a job and core budgets a caller sets.
ThreadChoices == {1, 2}
CoreChoices == {1, 2}

Jobs == DOMAIN upstream

\* The job sets resolution can hand over: n jobs numbered in creation order,
\* each with upstream jobs among the earlier ones (the graph is acyclic).
JobGraphs(n) == {up \in [1..n -> SUBSET (1..n)] : \A j \in 1..n : up[j] \subseteq 1..(j - 1)}

\* Workflow.set_job_finished(job, error) on the errors flag.
set_job_finished(e, error) == IF error THEN TRUE ELSE e

\* Workflow.set_cores
CallSetCores(c) ==
    /\ pc # "scheduling"
    /\ cores' = c
    /\ lastOp' = [NoOp EXCEPT !.op = "set_cores"]
    /\ UNCHANGED <<regVars, wdVars, disk, errors, pc, upstream, threads, jstate,
                   sched_errors, runReported, prevFailed, cleaned, retval>>

\* _run up to scheduler.schedule(): a fresh job set, a fresh scheduler; with
\* dag the job graph is printed and _run returns None.  self.errors is not
\* assigned.
RunStart(n, up, th, dag) ==
    /\ pc # "scheduling"
    /\ prevFailed' = (prevFailed \/ (pc = "returned" /\ retval = "1"))
    /\ sched_errors' = FALSE
    /\ runReported' = FALSE
    /\ cleaned' = FALSE
    /\ IF dag
       THEN /\ pc' = "returned"
            /\ upstream' = <<>> /\ threads' = <<>> /\ jstate' = <<>>
       ELSE /\ pc' = "scheduling"
            /\ upstream' = up /\ threads' = th
            /\ jstate' = [j \in 1..n |-> "pending"]
    /\ retval' = None
    /\ lastOp' = [NoOp EXCEPT !.op = "_run"]
    /\ UNCHANGED <<regVars, wdVars, disk, errors, cores>>

\* A job is ready when every upstream job is done; with this variant one
\* done upstream job, or none to wait for, is enough.
ReadyAnyUpstream(j) ==
    /\ jstate[j] = "pending"
    /\ (upstream[j] = {} \/ \E u \in upstream[j] : jstate[u] = "done")

Ready(j) ==
    /\ jstate[j] = "pending"
    /\ \A u \in upstream[j] : jstate[u] = "done"

ReadySet == {j \in Jobs : Ready(j)}
Running == {j \in Jobs : jstate[j] = "running"}

\* threads clamped to the core budget
Clamped(j) == IF threads[j] > cores THEN cores ELSE threads[j]

RECURSIVE Demand(_)
Demand(S) == IF S = {} THEN 0
             ELSE LET j == CHOOSE x \in S : TRUE IN Clamped(j) + Demand(S \ {j})

RECURSIVE Pow2(_)
Pow2(k) == IF k = 0 THEN 1 ELSE 2 * Pow2(k - 1)

\* Lower sequence numbers weigh more.
RECURSIVE Preference(_)
Preference(S) == IF S = {} THEN 0
                 ELSE LET j == CHOOSE x \in S : TRUE
                      IN Pow2(Cardinality(Jobs) - j) + Preference(S \ {j})

Available == cores - Demand(Running)

\* The knapsack admission: a subset of the ready jobs within the available
\* cores of greatest thread demand, ties broken by sequence number.
Knapsack ==
    LET fits == {S \in SUBSET ReadySet : Demand(S) <= Available}
        best == {S \in fits : \A T \in fits : Demand(T) <= Demand(S)}
    IN CHOOSE S \in best : \A T \in best : Preference(T) <= Preference(S)

\* The scheduler dispatches; after a failure it admits nothing.
Dispatch ==
    /\ pc = "scheduling"
    /\ ~sched_errors
    /\ Knapsack # {}
    /\ jstate' = [j \in Jobs |-> IF j \in Knapsack THEN "running" ELSE jstate[j]]
    /\ lastOp' = [NoOp EXCEPT !.op = "dispatch"]
    /\ UNCHANGED <<regVars, wdVars, disk, errors, pc, upstream, threads, cores,
                   sched_errors, runReported, prevFailed, cleaned, retval>>

\* A worker posts the completion of a running job; the job's callback is
\* Workflow.set_job_finished.
Complete(j, error) ==
    /\ pc = "scheduling"
    /\ jstate[j] = "running"
    /\ jstate' = [jstate EXCEPT ![j] = IF error THEN "failed" ELSE "done"]
    /\ errors' = set_job_finished(errors, error)
    /\ sched_errors' = (sched_errors \/ error)
    /\ runReported' = (runReported \/ error)
    /\ lastOp' = [NoOp EXCEPT !.op = "complete"]
    /\ UNCHANGED <<regVars, wdVars, disk, pc, upstream, threads, cores,
                   prevFailed, cleaned, retval>>

\* What _run returns once schedule() has returned, and whether it invokes
\* Job.cleanup_unfinished.
run_result(e) == IF e THEN [cleanup |-> TRUE, value |-> "1"]
                 ELSE [cleanup |-> FALSE, value |-> "0"]

\* schedule() returns when nothing runs and nothing more is admitted; _run
\* then looks at self.errors.  Its jobs dict and its scheduler are locals
\* and end with the call.
RunReturn ==
    /\ pc = "scheduling"
    /\ Running = {}
    /\ (sched_errors \/ ReadySet = {})
    /\ pc' = "returned"
    /\ cleaned' = run_result(errors).cleanup
    /\ retval' = run_result(errors).value
    /\ upstream' = <<>>
    /\ threads' = <<>>
    /\ jstate' = <<>>
    /\ sched_errors' = FALSE
    /\ lastOp' = [NoOp EXCEPT !.op = "return"]
    /\ UNCHANGED <<regVars, wdVars, disk, errors, cores, runReported, prevFailed>>

InitSpecRun == InitReg /\ InitWd /\ InitRun /\ disk = {} /\ lastOp = NoOp

NextRun ==
    \/ \E c \in CoreChoices : CallSetCores(c)
    \/ \E n \in 1..MaxJobs, dag \in BOOLEAN :
          \E up \in JobGraphs(n), th \in [1..n -> ThreadChoices] :
             RunStart(n, up, th, dag)
    \/ Dispatch
    \/ \E j \in Jobs, error \in BOOLEAN : Complete(j, error)
    \/ RunReturn

SpecRun == InitSpecRun /\ [][NextRun]_vars

\* C1: every run (not in dag mode) returns 0 if no job of that run reported
\* an error, and otherwise invokes the cleanup of unfinished jobs and returns
\* 1, whatever the earlier runs on the workflow returned.
C1_RunResultIsThisRuns ==
    (pc = "returned" /\ retval # None) =>
        /\ ~runReported => (retval = "0" /\ ~cleaned)
        /\ runReported => (retval = "1" /\ cleaned)

\* C8: no job is running, or has run, unless every one of its upstream jobs
\* is done.
C8_ReadySetSound ==
    \A j \in Jobs :
        jstate[j] \in {"running", "done", "failed"} =>
            \A u \in upstream[j] : jstate[u] = "done"

\* C8's case: a job that waited for two upstream jobs is running.
C8_Witness ==
    \E j \in Jobs :
        /\ jstate[j] = "running"
        /\ Cardinality(upstream[j]) >= 2
        /\ \A u \in upstream[j] : jstate[u] = "done"

====
